---- MODULE Spec2Model ----
(***************************************************************************)
(* Model of ASP's SolverBase (src/solverbase.py): the solve() driver, the  *)
(* adaptive loop (adaptivity), one adaptive iteration (adaptive_solve:     *)
(* annotated primal pass, dual sweep, error indicators), the time stepper  *)
(* and the mesh refinement marking.                                        *)
(*                                                                         *)
(* Modelling conventions                                                   *)
(*  - Exact rationals are pairs <<n, d>> with d > 0 in lowest terms.  The   *)
(*    numbers the problem and the options hold (T, t0, k, on_disk,         *)
(*    adapt_ratio) are given by the fraction that names them; the Python   *)
(*    float is the double nearest to that fraction.  Every float the       *)
(*    program computes (k, t, T - k / 2., the quotients and products) is   *)
(*    a double <<q, e>>: the fraction q the exact arithmetic would give    *)
(*    and the deviation e of the double from q, an exact rational in       *)
(*    units of 2^-56.  Every float operation rounds its exact result to    *)
(*    the nearest double, ties to the even mantissa.  Deviations are far   *)
(*    smaller than the distance of any two fractions the model can hold,   *)
(*    so two doubles compare by their fractions, then by their deviations. *)
(*  - The numerical backend (dolfin / dolfin_adjoint) is abstract: once   *)
(*    dolfin_adjoint is imported a solve records the solved function on    *)
(*    the tape, an assembly returns an arbitrary vector over the mesh      *)
(*    cells, compute_adjoint replays the tape in reverse, adj_reset clears *)
(*    it.  The backend stops recording only when its parameter             *)
(*    parameters['adjoint']['stop_annotating'] is set; the module writes   *)
(*    the single key 'adjoint"]["stop_annotating' of parameters instead    *)
(*    (lines 136, 157, 211, 225), which the backend does not read.         *)
(*  - The module sets adjointer after writing the key                      *)
(*    'adjoint"]["record_all' (line 13) inside the try of the import: a    *)
(*    parameter set that rejects unknown keys leaves adjointer False       *)
(*    although dolfin_adjoint is imported.  Both are environment flags.    *)
(*  - The module imports subprocess.getoutput at load time, which exists   *)
(*    only under Python 3; the repository's own statements are therefore   *)
(*    given their Python 3 meaning (map() returns an iterator).  Whether   *)
(*    the name xrange resolves depends on what the star imports of the     *)
(*    backend export; it is an environment flag chosen in Init.            *)
(***************************************************************************)
EXTENDS Integers, Sequences, FiniteSets, TLC

\* ------------------------------------------------------------------ bounds
MaxAdapts == 2          \* max_adaptations ranges over 0..MaxAdapts
MaxCells == 2           \* cells of the initial mesh range over 1..MaxCells
MaxRecords == 2         \* 'w' records one step's solve may put on the tape
MaxTimestep == 2        \* compute_dual on its own: the pass before the sweep
                        \* has 1..MaxTimestep + 1 steps
MaxSpan == 6            \* adjust_dt on its own: T - t0 ranges over 1..MaxSpan
MaxNum == 3             \* and the step k over the fractions n / d with
MaxDen == 10            \* n in 1..MaxNum and d in 1..MaxDen
MaxRefineCells == 5     \* adaptive_refine on its own: cells of the mesh
MaxGamma == 5           \* and indicator entries in -1..MaxGamma
WideCells == 22         \* and the cells of one wider mesh

\* the element of a one-element set: The({F(x) : x \in {e}}) is F(e) with e
\* evaluated once
The(S) == CHOOSE x \in S : TRUE

\* --------------------------------------------------------------- rationals
RECURSIVE GCD(_, _)
GCD(a, b) == IF b = 0 THEN a ELSE The({GCD(b, r) : r \in {a % b}})

Abs(x) == IF x < 0 THEN -x ELSE x

\* n / d in lowest terms with a positive denominator
RatBy(n, d, s, g) == <<(s * n) \div g, (s * d) \div g>>
Rat(n, d) ==
  The({The({RatBy(x, y, IF y < 0 THEN -1 ELSE 1, g) :
              g \in {GCD(Abs(x), Abs(y))}}) :
         x \in {n}, y \in {d}})

RInt(n) == <<n, 1>>
RAdd(a, b) ==
  The({Rat(x[1] * y[2] + y[1] * x[2], x[2] * y[2]) : x \in {a}, y \in {b}})
RSub(a, b) ==
  The({Rat(x[1] * y[2] - y[1] * x[2], x[2] * y[2]) : x \in {a}, y \in {b}})
RMul(a, b) ==
  The({Rat(x[1] * y[1], x[2] * y[2]) : x \in {a}, y \in {b}})
RDiv(a, b) ==
  The({Rat(x[1] * y[2], x[2] * y[1]) : x \in {a}, y \in {b}})
RLess(a, b) == a[1] * b[2] < b[1] * a[2]
RLeq(a, b) == a[1] * b[2] <= b[1] * a[2]
RFloor(a) == a[1] \div a[2]
\* Python int(x): truncation toward zero
RTrunc(a) == IF a[1] >= 0 THEN a[1] \div a[2] ELSE -((-a[1]) \div a[2])
\* Python 3 round(x): nearest integer, ties to the even one
RRound(a) ==
  LET fl == RFloor(a)
      twice == 2 * (a[1] - fl * a[2])
  IN  IF twice < a[2] THEN fl
      ELSE IF twice > a[2] THEN fl + 1
      ELSE IF fl % 2 = 0 THEN fl ELSE fl + 1

None == <<<<0, 0>>, <<0, 1>>>>      \* Python None for a float-valued name

\* ------------------------------------------------------ double precision
\* The double nearest to a fraction q is q + FErr(q) * 2^-56.  Doubles carry
\* a 53-bit mantissa: for q in [2^p, 2^(p + 1)) the mantissa is q * 2^(52 - p)
\* rounded to the nearest integer, ties to the even one, and neighbouring
\* doubles are 2^(p - 52) apart, which is 2^(p + 4) units of 2^-56.
RECURSIVE Pow2(_)
Pow2(n) == IF n = 0 THEN 1 ELSE 2 * Pow2(n - 1)

RPow2(p) == IF p >= 0 THEN <<Pow2(p), 1>> ELSE <<1, Pow2(-p)>>
RAbs(a) == <<Abs(a[1]), a[2]>>
Sgn(n) == IF n > 0 THEN 1 ELSE IF n < 0 THEN -1 ELSE 0

\* floor(log2(n / d)) for n, d > 0
RECURSIVE FloorLog2(_, _)
FloorLog2(n, d) ==
  IF n >= 2 * d THEN FloorLog2(n, 2 * d) + 1
  ELSE IF n < d THEN FloorLog2(2 * n, d) - 1
  ELSE 0

\* (x * y) mod b for 0 <= x, y < b, by doubling where the product would not
\* fit a machine integer
RECURSIVE MulMod(_, _, _)
MulMod(x, y, b) ==
  IF x <= 46340 /\ y <= 46340 THEN (x * y) % b
  ELSE IF y = 0 THEN 0
  ELSE (2 * MulMod(x, y \div 2, b) + (y % 2) * x) % b

\* (a * 2^52) mod b, with 2^52 = ((2^13)^2)^2
SquareMod(x, b) == MulMod(x, x, b)
ShiftMod52(a, b) == MulMod(a % b, SquareMod(SquareMod(8192 % b, b), b), b)

\* The mantissa of the double nearest to q > 0: its binary exponent, its
\* deviation from q * 2^(52 - exp), whether it is odd, and whether q is a
\* power of two (the doubles below a power of two are half as far apart).
\* With a / b = q * 2^(-exp) in [1, 2) the mantissa is a * 2^52 / b rounded:
\* R is the remainder of that division, and the integer part of the quotient
\* is odd when a * 2^52 leaves b or more modulo 2 * b.
MantissaRounded(p, a, b, R, floorOdd, up) ==
  [exp |-> p,
   err |-> IF up THEN Rat(b - R, b) ELSE Rat(-R, b),
   odd |-> (floorOdd # up),
   pow2 |-> (a = b)]

MantissaBits(p, a, b, R, floorOdd) ==
  MantissaRounded(p, a, b, R, floorOdd,
                  (2 * R > b) \/ (2 * R = b /\ floorOdd))

MantissaScaled(p, a, b) ==
  The({MantissaBits(p, a, b, R, floorOdd) :
         R \in {ShiftMod52(a, b)}, floorOdd \in {ShiftMod52(a, 2 * b) >= b}})

MantissaExp(q, p) ==
  The({MantissaScaled(p, a, b) :
         a \in {IF p < 0 THEN q[1] * Pow2(-p) ELSE q[1]},
         b \in {IF p > 0 THEN q[2] * Pow2(p) ELSE q[2]}})

Mantissa(q) ==
  The({MantissaExp(x, p) : x \in {q}, p \in {FloorLog2(q[1], q[2])}})

\* deviation of the double nearest to q from q, in units of 2^-56
FErrOf(m) == RMul(m.err, RPow2(m.exp + 4))
FErr(q) ==
  IF q[1] = 0 THEN <<0, 1>>
  ELSE The({RMul(RInt(Sgn(q[1])), FErrOf(m)) : m \in {Mantissa(RAbs(q))}})

\* c >= 0 with integer part j rounded to the nearest integer.  Of two
\* equally near ones: the upper when the exact value lies a hair above c
\* (hair = 1), the lower when it lies a hair below (hair = -1), otherwise
\* the one that makes a mantissa of the given parity even
RoundHalfFrom(c, j, baseOdd, hair) ==
  IF 2 * (c[1] - j * c[2]) < c[2] THEN j
  ELSE IF 2 * (c[1] - j * c[2]) > c[2] THEN j + 1
  ELSE IF hair > 0 THEN j + 1
  ELSE IF hair < 0 THEN j
  ELSE IF (j % 2 = 1) = baseOdd THEN j ELSE j + 1

RoundHalf(c, baseOdd, hair) ==
  The({RoundHalfFrom(x, RFloor(x), baseOdd, hair) : x \in {c}})

\* the double nearest to g + dl, where g is a double with mantissa parity
\* odd and st is the distance between the doubles on the side of dl
FRoundStep(g, dl, st, odd, hair) ==
  The({RAdd(g, RMul(RInt(Sgn(dl[1]) * j), st)) :
         j \in {RoundHalf(RDiv(RAbs(dl), st), odd, Sgn(dl[1]) * hair)}})

FRoundNear(m, g, dl, U, hair) ==
  The({FRoundStep(g, dl, st, m.odd, hair) :
         st \in {IF m.pow2 /\ dl[1] < 0 THEN RDiv(U, RInt(2)) ELSE U}})

FRoundFrom(m, g, e, hair) ==
  The({FRoundNear(m, g, dl, RPow2(m.exp + 4), hair) : dl \in {RSub(e, g)}})

FRoundMant(m, e, hair) ==
  The({FRoundFrom(m, g, x, hair) : g \in {FErrOf(m)}, x \in {e}})

\* the result of a float operation whose exact value is q + e * 2^-56, or a
\* hair above or below that: the deviation from q of the double nearest to
\* that value
FRoundHair(q, e, hair) ==
  IF q[1] = 0 THEN e
  ELSE The({RMul(RInt(Sgn(q[1])),
                 FRoundMant(m, RMul(RInt(Sgn(q[1])), e), Sgn(q[1]) * hair)) :
              m \in {Mantissa(RAbs(q))}})

FRound(q, e) == FRoundHair(q, e, 0)

\* int(x) of the double q + e * 2^-56: truncation toward zero
FTrunc(q, e) ==
  IF q[2] # 1 THEN RTrunc(q)
  ELSE IF q[1] > 0 /\ e[1] < 0 THEN q[1] - 1
  ELSE IF q[1] < 0 /\ e[1] > 0 THEN q[1] + 1
  ELSE q[1]

\* the double a fraction names
D(q) == <<q, FErr(q)>>

\* a < b for two doubles
DLess(a, b) ==
  The({IF x[1] = y[1] THEN RLess(x[2], y[2]) ELSE RLess(x[1], y[1]) :
         x \in {a}, y \in {b}})

\* the double nearest to q + e * 2^-56
DNear(q, e) == The({<<x, FRound(x, y)>> : x \in {q}, y \in {e}})

\* a + b, a - b, a / 2., a / m and N * a for doubles a, b and integers m, N
DAdd(a, b) ==
  The({DNear(RAdd(x[1], y[1]), RAdd(x[2], y[2])) : x \in {a}, y \in {b}})
DSub(a, b) ==
  The({DNear(RSub(x[1], y[1]), RSub(x[2], y[2])) : x \in {a}, y \in {b}})
DHalf(a) ==
  The({<<RDiv(x[1], RInt(2)), RDiv(x[2], RInt(2))>> : x \in {a}})
DDivInt(a, m) ==
  The({DNear(RDiv(x[1], RInt(n)), RDiv(x[2], RInt(n))) :
         x \in {a}, n \in {m}})
DTimesInt(a, N) ==
  The({DNear(RMul(x[1], RInt(n)), RMul(x[2], RInt(n))) :
         x \in {a}, n \in {N}})

\* a / b for doubles a and b # 0.  With q the quotient of the fractions the
\* exact quotient is q + c * 2^-56 / (1 + b[2] * 2^-56 / b[1]) for
\* c = (a[2] - q * b[2]) / b[1]: a hair nearer to q than q + c * 2^-56 when
\* b[2] and b[1] have the same sign, a hair farther when they have not
DDivHair(q, c, sb) == <<q, FRoundHair(q, c, -Sgn(c[1]) * sb)>>
DDivBy(a, b, q) ==
  The({DDivHair(q, c, Sgn(b[2][1]) * Sgn(b[1][1])) :
         c \in {RDiv(RSub(a[2], RMul(q, b[2])), b[1])}})
DDiv(a, b) ==
  The({The({DDivBy(x, y, q) : q \in {RDiv(x[1], y[1])}}) :
         x \in {a}, y \in {b}})

\* int(x) and int(round(x)) of a double x
DInt(x) == The({FTrunc(y[1], y[2]) : y \in {x}})
DRoundOf(x) ==
  IF x[1][2] = 2 /\ x[2][1] # 0
  THEN (IF x[2][1] < 0 THEN RFloor(x[1]) ELSE RFloor(x[1]) + 1)
  ELSE RRound(x[1])
DRound(x) == The({DRoundOf(y) : y \in {x}})

\* dolfin's DOLFIN_EPS = 3.0e-16, the double 6084722881095501 * 2^-104: in
\* units of 2^-56 it is 6084722881095501 / 2^48 = 21.6172..., given here by
\* its continued fraction 21 + 1 / (1 + 1 / (1 + ...))
DOLFIN_EPS ==
  <<21, 1, 1, 1, 1, 1, 1, 2, 1, 1, 25, 1, 41, 1, 1, 1, 3, 1, 1, 7, 8, 8, 7,
    8, 1, 3, 11, 2, 3, 3, 1, 2>>

\* the sign of x - c for a rational x and the number c whose continued
\* fraction is cf from its j-th term on
RECURSIVE CFCmp(_, _, _)
CFCmpAt(x, cf, j, fx) ==
  IF fx > cf[j] THEN 1
  ELSE IF fx < cf[j] THEN -1
  ELSE IF j = Len(cf) THEN Sgn(x[1] - fx * x[2])
  ELSE IF x[1] = fx * x[2] THEN -1
  ELSE -CFCmp(Rat(x[2], x[1] - fx * x[2]), cf, j + 1)
CFCmp(x, cf, j) == The({CFCmpAt(y, cf, j, RFloor(y)) : y \in {x}})

\* ------------------------------------------------------- sequence helpers
RECURSIVE Sum(_)
Sum(s) == IF s = <<>> THEN 0 ELSE Head(s) + Sum(Tail(s))

RECURSIVE Reverse(_)
Reverse(s) == IF s = <<>> THEN <<>> ELSE Append(Reverse(Tail(s)), Head(s))

\* insert x into a sequence already sorted in descending order
RECURSIVE InsertDesc(_, _)
InsertDesc(x, s) ==
  IF s = <<>> THEN <<x>>
  ELSE IF x >= Head(s) THEN <<x>> \o s
  ELSE <<Head(s)>> \o InsertDesc(x, Tail(s))

\* sorted(gamma, reverse=True)
RECURSIVE SortedDesc(_)
SortedDesc(s) == IF s = <<>> THEN <<>> ELSE InsertDesc(Head(s), SortedDesc(Tail(s)))

\* Python indexing s[n] of a list: negative n counts from the end
PyIndexOK(s, n) == n < Len(s) /\ n >= -Len(s)
PyIndex(s, n) == IF n >= 0 THEN s[n + 1] ELSE s[Len(s) + n + 1]

\* the residual of the loop pass with index j: weak_residual gets
\* theta * wtape[j] + (1 - theta) * wtape[j + 1], wtape[j], wtape[j + 1] and
\* z * phi[j]; the steady residual gets wtape[0] and z * phi[0] only
Residual(j) == [theta_on |-> j, rest_on |-> j + 1, w |-> j, w_ |-> j + 1,
                dual |-> j]
SteadyResidual == [theta_on |-> -1, rest_on |-> -1, w |-> 0, w_ |-> -1,
                   dual |-> 0]

Zeros(n) == [c \in 1..n |-> 0]
VecAdd(a, b) == [c \in 1..Len(a) |-> a[c] + b[c]]

\* ---------------------------------------------------------- pure functions
\* which_mesh(i): for i = 0 the label is returned before num is indexed; for
\* i >= 1 it evaluates num[-1] on the iterator map() returns, a TypeError.
which_mesh(n) == IF n = 0 THEN "initial" ELSE "TypeError"

\* adjust_dt(t0, T, k): d, r = divmod(T - t0, k); if r > DOLFIN_EPS the step
\* becomes (T - t0) / (d + 1).  divmod works on the doubles x = T - t0 >= 0
\* and k > 0 and is exact: with f the floor of the quotient of the
\* fractions, x - f * k is <<x[1] - f * k[1], x[2] - f * k[2]>>.  When that
\* is below zero (the fractions divide evenly, the doubles fall short), d
\* is f - 1 and r is k more; otherwise d is f and r is x - f * k.
DivmodRem(x, kd, f) ==
  <<RSub(x[1], RMul(RInt(f), kd[1])), RSub(x[2], RMul(RInt(f), kd[2]))>>
DivmodShort(rem) == rem[1][1] = 0 /\ rem[2][1] < 0
DivmodD(f, rem) == IF DivmodShort(rem) THEN f - 1 ELSE f
DivmodR(kd, rem) ==
  IF DivmodShort(rem) THEN <<kd[1], RAdd(kd[2], rem[2])>> ELSE rem

\* r > DOLFIN_EPS: a remainder whose fraction is not zero is a positive
\* fraction the model can hold, which is far above DOLFIN_EPS or below zero
DivmodRAboveEps(r) ==
  IF r[1][1] # 0 THEN r[1][1] > 0 ELSE CFCmp(r[2], DOLFIN_EPS, 1) > 0

AdjustBy(x, kd, d, r) ==
  IF DivmodRAboveEps(r) THEN DDivInt(x, d + 1) ELSE kd

AdjustRem(x, kd, f, rem) ==
  AdjustBy(x, kd, DivmodD(f, rem), DivmodR(kd, rem))

AdjustQuot(x, kd, f) ==
  The({AdjustRem(x, kd, f, rem) : rem \in {DivmodRem(x, kd, f)}})

AdjustSpan(x, kd) ==
  The({AdjustQuot(x, kd, f) : f \in {RFloor(RDiv(x[1], kd[1]))}})

adjust_dt(t0, T, kk) ==
  The({AdjustSpan(x, kd) : x \in {DSub(D(T), D(t0))}, kd \in {D(kk)}})

\* condition(ei, m, m_): c = abs(sum(ei.vector()))
condition(eiv) == Abs(Sum(eiv))

\* N = int(round((T - t0) / k)) for the step k the solver holds
StepCount(t0, T, kd) == DRound(DDiv(DSub(D(T), D(t0)), kd))

\* the assert of adaptive_solve: onDisk <= 1. or onDisk >= 0.
OnDiskAssert(f) == RLeq(f, RInt(1)) \/ RLeq(RInt(0), f)

\* the keyword arguments handed to adj_checkpointing: int(onDisk * N) and
\* int((1. - onDisk) * N), each product and the difference rounded to a double
CheckpointArgs(f, N) ==
  The({[steps |-> n,
        snaps_on_disk |-> DInt(DTimesInt(x, n)),
        snaps_in_ram |-> DInt(DTimesInt(DSub(D(RInt(1)), x), n))] :
         x \in {D(f)}, n \in {N}})

\* adaptive_refine: the threshold index, the threshold and the cell markers
Gamma(eiv) == [c \in 1..Len(eiv) |-> Abs(eiv[c])]
AdaptN(eiv, ratio) ==
  DInt(DSub(DTimesInt(D(ratio), Len(eiv)), D(RInt(1))))
Gamma0(eiv, ratio) == PyIndex(SortedDesc(Gamma(eiv)), AdaptN(eiv, ratio))
\* mutant of CellMarkers: the comparison with the threshold is not strict
CellMarkers_nonstrict(eiv, ratio) ==
  [c \in 1..Len(eiv) |-> Gamma(eiv)[c] >= Gamma0(eiv, ratio)]

CellMarkers(eiv, ratio) ==
  [c \in 1..Len(eiv) |-> Gamma(eiv)[c] > Gamma0(eiv, ratio)]
Marked(markers) == {c \in 1..Len(markers) : markers[c]}

\* the backend's refine(mesh, cell_markers): a new mesh (next generation) in
\* which every marked cell has been subdivided
refine(m, markers) ==
  [gen |-> m.gen + 1, cells |-> m.cells + Cardinality(Marked(markers))]

\* ------------------------------------------------------------------ state
VARIABLES
  self,             \* solver options set by set_options
  problem,          \* the Problem collaborator: T, t0, k, optional members
  env,              \* whether dolfin_adjoint is imported, the adjointer
                    \* flag, whether the name xrange resolves
  pc,               \* position of the single thread of control
  caller,           \* which forward_solve is running: adaptive, final, opt
  error,            \* exception that ended the run, "none" otherwise
  mesh, k, t,       \* current mesh, time step, time of the time stepper
  i, COND,          \* adaptivity: iteration counter and stopping metric
  stop_annotating,  \* parameters['adjoint"]["stop_annotating']: "unset"
                    \* until the key is written, then "True" or "False"
  tape,             \* the adjoint tape: entries, open timestep, finished
  ckpt,             \* adj_checkpointing calls since the last adj_reset
  _timestep,        \* self._timestep
  adjoint,          \* compute_dual: records compute_adjoint still yields
  timestep,         \* compute_dual: timestep of the last 'w' record (-1: None)
  iteration,        \* compute_dual: iteration counter
  tdual,            \* compute_dual: t
  phi, wtape,       \* compute_dual: dual states and tape values
  ei, eiIdx,        \* build_error_indicators: the field and the loop index
  cell_markers,     \* adaptive_refine: the last cell marking
  warnings,         \* warnings printed so far
  refines,          \* number of adaptive_refine calls (history)
  duals,            \* dual states the last dual sweep returned (history)
  metricGen,        \* generation of the mesh COND was last computed on
                    \* (history, -1 before the first)
  trace,            \* phases completed in the current adaptive iteration
  residuals,        \* build_error_indicators: for every residual assembled
                    \* into ei, the 0-based indices of the tape states and of
                    \* the dual state it was formed from (history)
  adj_inc           \* timeStepper: the adj_inc_timestep calls of the current
                    \* primal pass, each with its time and its finished
                    \* flag (history)

cfg == <<self, problem, env>>
dualLocals == <<adjoint, timestep, iteration, tdual, phi, wtape>>
vars == <<self, problem, env, pc, caller, error, mesh, k, t, i, COND,
          stop_annotating, tape, ckpt, _timestep, adjoint, timestep,
          iteration, tdual, phi, wtape, ei, eiIdx, cell_markers, warnings,
          refines, duals, metricGen, trace, residuals, adj_inc>>

\* ----------------------------------------------------------------- inputs
TolVals == {0, 1}                                  \* adaptive_TOL
RatioVals == {<<0, 1>>, <<1, 2>>, <<1, 1>>}        \* adapt_ratio
OnDiskVals == {<<-1, 2>>, <<0, 1>>, <<1, 2>>, <<3, 2>>}   \* on_disk
\* (t0, T, k) of the problem: an empty interval, one step, a step 2/3 that
\* adjust_dt turns into 1/2 (two steps), and an interval that ends at T = 0
TimeVals == {[t0 |-> <<1, 1>>, T |-> <<1, 1>>, k |-> <<1, 1>>],
             [t0 |-> <<0, 1>>, T |-> <<1, 1>>, k |-> <<1, 1>>],
             [t0 |-> <<0, 1>>, T |-> <<1, 1>>, k |-> <<2, 3>>],
             [t0 |-> <<-1, 1>>, T |-> <<0, 1>>, k |-> <<1, 1>>]}
StepVals == {<<1, 1>>, <<2, 3>>}                   \* problem.time_step(...)
EiVals == {-1, 0, 1}                               \* entries of an assembly
Vectors(n) == [1..n -> EiVals]

EmptyTape == [entries |-> <<>>, ts |-> 0, finished |-> FALSE]

\* the backend records a solve whenever dolfin_adjoint is imported (lines
\* 10-11): no statement assigns parameters['adjoint']['stop_annotating'],
\* and solve is called without an annotate argument (lines 415, 458)
Annotating == env.imported

\* options that only the adaptive loop reads are varied only when it runs,
\* options that only a time-dependent run reads only when the run is one
SelfVals ==
  {s \in [adaptive : BOOLEAN, optimize : BOOLEAN, steady_state : BOOLEAN,
          maxAdapts : 0..MaxAdapts, adaptTOL : TolVals,
          adaptRatio : RatioVals, onDisk : OnDiskVals] :
     /\ ~s.adaptive =>
          s.maxAdapts = 0 /\ s.adaptTOL = 0 /\ s.adaptRatio = <<1, 2>>
          /\ s.onDisk = <<0, 1>>
     /\ s.steady_state => s.onDisk = <<0, 1>>}

ProblemVals(s) ==
  {p \in [T : {tv.T : tv \in TimeVals}, t0 : {tv.t0 : tv \in TimeVals},
          k : {tv.k : tv \in TimeVals}, cells : 1..MaxCells,
          hasOptimize : BOOLEAN, hasTimeStep : BOOLEAN] :
     /\ [t0 |-> p.t0, T |-> p.T, k |-> p.k] \in TimeVals
     /\ s.steady_state =>
          p.t0 = <<0, 1>> /\ p.T = <<1, 1>> /\ p.k = <<1, 1>>
          /\ ~p.hasTimeStep
     /\ ~s.adaptive => ~p.hasTimeStep /\ p.cells = 1
     /\ ~s.optimize => ~p.hasOptimize}

\* lines 9-18: adjointer is set only after the import and the write of the
\* record_all key both succeeded
EnvVals(s) ==
  {e \in [imported : BOOLEAN, adjointer : BOOLEAN, xrangeDefined : BOOLEAN] :
     /\ e.adjointer => e.imported
     /\ (~s.adaptive \/ s.steady_state \/ ~e.adjointer) => e.xrangeDefined}

\* __init__ followed by the first statement of solve: mesh = problem.mesh
Init ==
  /\ self \in SelfVals
  /\ problem \in ProblemVals(self)
  /\ env \in EnvVals(self)
  /\ pc = "solve"
  /\ caller = "none"
  /\ error = "none"
  /\ mesh = [gen |-> 0, cells |-> problem.cells]
  /\ k = None
  /\ t = None
  /\ i = 0
  /\ COND = 1
  /\ stop_annotating = "unset"
  /\ tape = EmptyTape
  /\ ckpt = <<>>
  /\ _timestep = 0
  /\ adjoint = <<>>
  /\ timestep = -1
  /\ iteration = 0
  /\ tdual = None
  /\ phi = <<>>
  /\ wtape = <<>>
  /\ ei = <<>>
  /\ eiIdx = 0
  /\ cell_markers = <<>>
  /\ warnings = {}
  /\ refines = 0
  /\ duals = 0
  /\ metricGen = -1
  /\ trace = <<>>
  /\ residuals = <<>>
  /\ adj_inc = <<>>


\* ---------------------------------------------------------------- helpers
PassTag == IF caller = "adaptive" THEN i ELSE -1
\* forward_solve, lines 326-333: the function the time stepper assigns to is
\* a Function named 'w_' when adjointer is set, and the problem's initial
\* condition itself ("ic") otherwise
NameOfW_ == IF env.adjointer THEN "w_" ELSE "ic"
\* a record of the backend: "w" stands for the solved function w
Rec(name) == [name |-> name, timestep |-> tape.ts, pass |-> PassTag]
RecordW(n) == [j \in 1..n |-> Rec("w")]
HalfStepBound == DSub(D(problem.T), DHalf(k))           \* T - k / 2.
Abort(exc) == pc' = "aborted" /\ error' = exc

\* the locals of adaptive_solve, compute_dual and build_error_indicators go
\* out of scope when adaptive_solve returns
DropDualLocals ==
  /\ adjoint' = <<>>
  /\ timestep' = -1
  /\ iteration' = 0
  /\ tdual' = None
  /\ phi' = <<>>
  /\ wtape' = <<>>
  /\ eiIdx' = 0

\* ------------------------------------------------------------------ solve
\* solve, lines 112-127: adjust the step, then enter the adaptive loop when
\* it is requested and the adjoint backend is there
solve_begin ==
  /\ pc = "solve"
  /\ k' = IF ~self.steady_state
          THEN adjust_dt(problem.t0, problem.T, problem.k) ELSE None
  /\ IF self.adaptive /\ env.adjointer
     THEN pc' = "adaptivity" /\ i' = 0 /\ COND' = 1 /\ UNCHANGED warnings
     ELSE /\ pc' = "primal"
          /\ UNCHANGED <<i, COND>>
          /\ warnings' = IF self.adaptive
                         THEN warnings \cup {"adaptivity_without_adjoint"}
                         ELSE warnings
  /\ UNCHANGED <<self, problem, env, caller, error, mesh, t, stop_annotating,
                 tape, ckpt, _timestep, adjoint, timestep, iteration, tdual,
                 phi, wtape, ei, eiIdx, cell_markers, refines, duals,
                 metricGen, trace, residuals, adj_inc>>

\* solve, lines 129-142: the final primal pass is started
solve_primal ==
  /\ pc = "primal"
  /\ stop_annotating' =
       IF env.adjointer
       THEN IF self.adaptive \/ (self.optimize /\ problem.hasOptimize)
            THEN "False" ELSE "True"
       ELSE stop_annotating
  /\ caller' = "final"
  /\ pc' = "forward_solve"
  /\ UNCHANGED <<self, problem, env, error, mesh, k, t, i, COND, tape, ckpt,
                 _timestep, adjoint, timestep, iteration, tdual, phi, wtape,
                 ei, eiIdx, cell_markers, warnings, refines, duals,
                 metricGen, trace, residuals, adj_inc>>

\* solve, lines 144-164 after the final pass: optimisation and re-solve, or
\* return
solve_after_primal ==
  /\ pc = "forward_done" /\ caller = "final"
  /\ IF self.optimize /\ problem.hasOptimize
     THEN IF env.adjointer
          THEN /\ stop_annotating' = "True"
               /\ caller' = "opt"
               /\ pc' = "forward_solve"
               /\ UNCHANGED warnings
          ELSE /\ warnings' = warnings \cup {"optimize_without_adjoint"}
               /\ pc' = "done"
               /\ UNCHANGED <<stop_annotating, caller>>
     ELSE pc' = "done" /\ UNCHANGED <<stop_annotating, caller, warnings>>
  /\ UNCHANGED <<self, problem, env, error, mesh, k, t, i, COND, tape, ckpt,
                 _timestep, adjoint, timestep, iteration, tdual, phi, wtape,
                 ei, eiIdx, cell_markers, refines, duals, metricGen, trace,
                 residuals, adj_inc>>

\* solve, line 164 after the re-solve that follows problem.Optimize
solve_return ==
  /\ pc = "forward_done" /\ caller = "opt"
  /\ pc' = "done"
  /\ UNCHANGED <<self, problem, env, caller, error, mesh, k, t, i, COND,
                 stop_annotating, tape, ckpt, _timestep, adjoint, timestep,
                 iteration, tdual, phi, wtape, ei, eiIdx, cell_markers,
                 warnings, refines, duals, metricGen, trace, residuals,
                 adj_inc>>

\* ------------------------------------------------------------- adaptivity
LoopGuard == i <= self.maxAdapts /\ COND > self.adaptTOL

\* adaptivity, lines 171-178: the loop test passes, the body starts
adaptivity_iterate ==
  /\ pc = "adaptivity"
  /\ LoopGuard
  /\ trace' = <<>>
  /\ IF which_mesh(i) = "TypeError"
     THEN Abort("TypeError")
     ELSE pc' = "adaptive_solve" /\ UNCHANGED error
  /\ UNCHANGED <<self, problem, env, caller, mesh, k, t, i, COND,
                 stop_annotating, tape, ckpt, _timestep, adjoint, timestep,
                 iteration, tdual, phi, wtape, ei, eiIdx, cell_markers,
                 warnings, refines, duals, metricGen, residuals, adj_inc>>

\* mutant of adaptivity_return: the warning tests the iteration budget only
adaptivity_return_budget_only ==
  /\ pc = "adaptivity"
  /\ ~LoopGuard
  /\ warnings' = IF i > self.maxAdapts
                 THEN warnings \cup {"max_iterations"} ELSE warnings
  /\ ei' = <<>>
  /\ residuals' = <<>>
  /\ cell_markers' = <<>>
  /\ pc' = "primal"
  /\ UNCHANGED <<self, problem, env, caller, error, mesh, k, t, i, COND,
                 stop_annotating, tape, ckpt, _timestep, adjoint, timestep,
                 iteration, tdual, phi, wtape, eiIdx, refines, duals,
                 metricGen, trace, adj_inc>>

\* adaptivity, lines 171 and 199-203: the loop test fails, warn and return
adaptivity_return ==
  /\ pc = "adaptivity"
  /\ ~LoopGuard
  /\ warnings' = IF i > self.maxAdapts /\ COND > self.adaptTOL
                 THEN warnings \cup {"max_iterations"} ELSE warnings
  /\ ei' = <<>>
  /\ residuals' = <<>>
  /\ cell_markers' = <<>>
  /\ pc' = "primal"
  /\ UNCHANGED <<self, problem, env, caller, error, mesh, k, t, i, COND,
                 stop_annotating, tape, ckpt, _timestep, adjoint, timestep,
                 iteration, tdual, phi, wtape, eiIdx, refines, duals,
                 metricGen, trace, adj_inc>>

\* adaptivity, line 183: COND = self.condition(ei, m, m_)
adaptivity_condition ==
  /\ pc = "condition"
  /\ COND' = condition(ei)
  /\ metricGen' = mesh.gen
  /\ trace' = Append(trace, "metric")
  /\ pc' = "adaptive_refine"
  /\ UNCHANGED <<self, problem, env, caller, error, mesh, k, t, i,
                 stop_annotating, tape, ckpt, _timestep, adjoint, timestep,
                 iteration, tdual, phi, wtape, ei, eiIdx, cell_markers,
                 warnings, refines, duals, residuals, adj_inc>>

\* mutant of adaptive_refine: the mesh is refined only while the loop is
\* going to continue
adaptive_refine_if_continuing ==
  /\ pc = "adaptive_refine"
  /\ IF COND <= self.adaptTOL
     THEN /\ trace' = Append(trace, "refine")
          /\ pc' = "adj_reset"
          /\ UNCHANGED <<error, mesh, k, cell_markers, refines>>
     ELSE /\ cell_markers' = CellMarkers(ei, self.adaptRatio)
          /\ mesh' = refine(mesh, cell_markers')
          /\ refines' = refines + 1
          /\ IF problem.hasTimeStep /\ ~self.steady_state
             THEN \E ks \in StepVals :
                    k' = adjust_dt(problem.t0, problem.T, ks)
             ELSE k' = k
          /\ trace' = Append(trace, "refine")
          /\ pc' = "adj_reset"
          /\ UNCHANGED error
  /\ UNCHANGED <<self, problem, env, caller, t, i, COND, stop_annotating,
                 tape, ckpt, _timestep, adjoint, timestep, iteration, tdual,
                 phi, wtape, ei, eiIdx, warnings, duals, metricGen,
                 residuals, adj_inc>>

\* adaptive_refine(mesh, ei) and its call site, lines 189-193
adaptive_refine ==
  /\ pc = "adaptive_refine"
  /\ IF ~PyIndexOK(SortedDesc(Gamma(ei)), AdaptN(ei, self.adaptRatio))
     THEN /\ Abort("IndexError")
          /\ UNCHANGED <<mesh, k, cell_markers, refines, trace>>
     ELSE /\ cell_markers' = CellMarkers(ei, self.adaptRatio)
          /\ mesh' = refine(mesh, cell_markers')
          /\ refines' = refines + 1
          /\ IF problem.hasTimeStep /\ ~self.steady_state
             THEN \E ks \in StepVals :
                    k' = adjust_dt(problem.t0, problem.T, ks)
             ELSE k' = k
          /\ trace' = Append(trace, "refine")
          /\ pc' = "adj_reset"
          /\ UNCHANGED error
  /\ UNCHANGED <<self, problem, env, caller, t, i, COND, stop_annotating,
                 tape, ckpt, _timestep, adjoint, timestep, iteration, tdual,
                 phi, wtape, ei, eiIdx, warnings, duals, metricGen,
                 residuals, adj_inc>>

\* mutant of adj_reset: the tape survives the reset
adj_reset_keeps_tape ==
  /\ pc = "adj_reset"
  /\ ckpt' = <<>>
  /\ trace' = Append(trace, "adj_reset")
  /\ pc' = "increment"
  /\ UNCHANGED <<self, problem, env, caller, error, mesh, k, t, i, COND,
                 stop_annotating, tape, _timestep, adjoint, timestep,
                 iteration, tdual, phi, wtape, ei, eiIdx, cell_markers,
                 warnings, refines, duals, metricGen, residuals, adj_inc>>

\* adaptivity, line 195: adj_reset()
adj_reset ==
  /\ pc = "adj_reset"
  /\ tape' = EmptyTape
  /\ ckpt' = <<>>
  /\ trace' = Append(trace, "adj_reset")
  /\ pc' = "increment"
  /\ UNCHANGED <<self, problem, env, caller, error, mesh, k, t, i, COND,
                 stop_annotating, _timestep, adjoint, timestep, iteration,
                 tdual, phi, wtape, ei, eiIdx, cell_markers, warnings,
                 refines, duals, metricGen, residuals, adj_inc>>

\* adaptivity, line 197: i += 1
adaptivity_increment ==
  /\ pc = "increment"
  /\ i' = i + 1
  /\ trace' = Append(trace, "increment")
  /\ pc' = "adaptivity"
  /\ UNCHANGED <<self, problem, env, caller, error, mesh, k, t, COND,
                 stop_annotating, tape, ckpt, _timestep, adjoint, timestep,
                 iteration, tdual, phi, wtape, ei, eiIdx, cell_markers,
                 warnings, refines, duals, metricGen, residuals, adj_inc>>

\* --------------------------------------------------------- adaptive_solve
\* mutant of adaptive_solve_begin: the checkpoint budget is configured
\* whatever the on-disk fraction
adaptive_solve_begin_always_checkpoints ==
  /\ pc = "adaptive_solve"
  /\ stop_annotating' = "False"
  /\ IF ~self.steady_state /\ ~OnDiskAssert(self.onDisk)
     THEN Abort("AssertionError") /\ UNCHANGED <<ckpt, _timestep, caller>>
     ELSE /\ ckpt' =
               IF ~self.steady_state
               THEN Append(ckpt,
                           CheckpointArgs(self.onDisk,
                             StepCount(problem.t0, problem.T, k)))
               ELSE ckpt
          /\ _timestep' = 0
          /\ caller' = "adaptive"
          /\ pc' = "forward_solve"
          /\ UNCHANGED error
  /\ UNCHANGED <<self, problem, env, mesh, k, t, i, COND, tape, adjoint,
                 timestep, iteration, tdual, phi, wtape, ei, eiIdx,
                 cell_markers, warnings, refines, duals, metricGen, trace,
                 residuals, adj_inc>>

\* adaptive_solve, lines 210-224: the stop_annotating key is written,
\* checkpoint budget, reset of the step counter, call of forward_solve
adaptive_solve_begin ==
  /\ pc = "adaptive_solve"
  /\ stop_annotating' = "False"
  /\ IF ~self.steady_state /\ ~OnDiskAssert(self.onDisk)
     THEN Abort("AssertionError") /\ UNCHANGED <<ckpt, _timestep, caller>>
     ELSE /\ ckpt' =
               IF ~self.steady_state /\ RLess(RInt(0), self.onDisk)
               THEN Append(ckpt,
                           CheckpointArgs(self.onDisk,
                             StepCount(problem.t0, problem.T, k)))
               ELSE ckpt
          /\ _timestep' = 0
          /\ caller' = "adaptive"
          /\ pc' = "forward_solve"
          /\ UNCHANGED error
  /\ UNCHANGED <<self, problem, env, mesh, k, t, i, COND, tape, adjoint,
                 timestep, iteration, tdual, phi, wtape, ei, eiIdx,
                 cell_markers, warnings, refines, duals, metricGen, trace,
                 residuals, adj_inc>>

\* adaptive_solve, lines 225-230, and the head of compute_dual, lines
\* 244-255: the stop_annotating key is written, step counter reset, the
\* adjoint replay starts
adaptive_solve_dual ==
  /\ pc = "forward_done" /\ caller = "adaptive"
  /\ stop_annotating' = "True"
  /\ _timestep' = 0
  /\ timestep' = -1
  /\ wtape' = <<>>
  /\ phi' = <<>>
  /\ tdual' = D(problem.T)
  /\ iteration' = 0
  /\ adjoint' = Reverse(tape.entries)
  /\ trace' = Append(trace, "annotation_off")
  /\ pc' = "compute_dual"
  /\ UNCHANGED <<self, problem, env, caller, error, mesh, k, t, i, COND,
                 tape, ckpt, ei, eiIdx, cell_markers, warnings, refines,
                 duals, metricGen, residuals, adj_inc>>

\* ---------------------------------------------------------- forward_solve
\* forward_solve and steady_solve, lines 319-350 and 411-427
steady_solve ==
  /\ pc = "forward_solve"
  /\ self.steady_state
  /\ IF Annotating
     THEN \E n \in 1..MaxRecords :
            tape' = [tape EXCEPT !.entries = @ \o RecordW(n)]
     ELSE tape' = tape
  /\ trace' = IF caller = "adaptive" THEN Append(trace, "primal") ELSE trace
  /\ pc' = "forward_done"
  /\ UNCHANGED <<self, problem, env, caller, error, mesh, k, t, i, COND,
                 stop_annotating, ckpt, _timestep, adjoint, timestep,
                 iteration, tdual, phi, wtape, ei, eiIdx, cell_markers,
                 warnings, refines, duals, metricGen, residuals, adj_inc>>

\* forward_solve and timeStepper up to the loop, lines 319-448: the tape's
\* first timestep is opened (adj_start_timestep, line 436) and the initial
\* condition is passed to update, the first update of the pass with a time;
\* update divides by problem.T for its progress line (line 507)
timeStepper_begin ==
  /\ pc = "forward_solve"
  /\ ~self.steady_state
  /\ t' = D(problem.t0)
  /\ adj_inc' = <<>>
  /\ IF problem.T = RInt(0)
     THEN Abort("ZeroDivisionError") /\ UNCHANGED _timestep
     ELSE /\ _timestep' = _timestep + 1
          /\ pc' = "timeStepper"
          /\ UNCHANGED error
  /\ UNCHANGED <<self, problem, env, caller, mesh, k, i, COND,
                 stop_annotating, tape, ckpt, adjoint, timestep, iteration,
                 tdual, phi, wtape, ei, eiIdx, cell_markers, warnings,
                 refines, duals, metricGen, trace, residuals>>

\* timeStepper, lines 450-473: one pass of the time loop; the solve and the
\* assign are recorded by an imported backend, adj_inc_timestep is called
\* when adjointer is set (lines 470-471)
timeStepper_step ==
  /\ pc = "timeStepper"
  /\ DLess(t, HalfStepBound)
  /\ t' = DAdd(t, k)
  /\ IF Annotating
     THEN \E n \in 1..MaxRecords :
            tape' = [entries |->
                       tape.entries \o RecordW(n) \o <<Rec(NameOfW_)>>,
                     ts |-> IF env.adjointer THEN tape.ts + 1 ELSE tape.ts,
                     finished |-> IF env.adjointer
                                  THEN DLess(HalfStepBound, t')
                                  ELSE tape.finished]
     ELSE tape' = tape
  /\ adj_inc' = IF env.adjointer
                THEN Append(adj_inc, [time |-> t',
                                      finished |-> DLess(HalfStepBound, t')])
                ELSE adj_inc
  /\ _timestep' = _timestep + 1
  /\ UNCHANGED <<self, problem, env, pc, caller, error, mesh, k, i, COND,
                 stop_annotating, ckpt, adjoint, timestep, iteration, tdual,
                 phi, wtape, ei, eiIdx, cell_markers, warnings, refines,
                 duals, metricGen, trace, residuals>>

\* timeStepper, lines 450 and 475-477: the loop test fails, return
timeStepper_return ==
  /\ pc = "timeStepper"
  /\ ~DLess(t, HalfStepBound)
  /\ trace' = IF caller = "adaptive" THEN Append(trace, "primal") ELSE trace
  /\ pc' = "forward_done"
  /\ UNCHANGED <<self, problem, env, caller, error, mesh, k, t, i, COND,
                 stop_annotating, tape, ckpt, _timestep, adjoint, timestep,
                 iteration, tdual, phi, wtape, ei, eiIdx, cell_markers,
                 warnings, refines, duals, metricGen, residuals, adj_inc>>

\* ----------------------------------------------------------- compute_dual
\* mutant of compute_dual_step: a timestep change does not reset the counter
compute_dual_step_no_reset ==
  /\ pc = "compute_dual"
  /\ adjoint # <<>>
  /\ LET var == Head(adjoint)
         it == IF timestep = -1 THEN 0 ELSE iteration + 1
     IN  /\ adjoint' = Tail(adjoint)
         /\ IF var.name = "w"
            THEN /\ iteration' = it
                 /\ timestep' = var.timestep
                 /\ wtape' = Append(wtape,
                      IF ~self.steady_state
                      THEN [timestep |-> var.timestep, iteration |-> it]
                      ELSE [timestep |-> -1, iteration |-> -1])
                 /\ phi' = Append(phi, var)
                 /\ IF ~self.steady_state
                    THEN _timestep' = _timestep + 1 /\ tdual' = DSub(tdual, k)
                    ELSE UNCHANGED <<_timestep, tdual>>
            ELSE UNCHANGED <<iteration, timestep, wtape, phi, _timestep,
                             tdual>>
  /\ UNCHANGED <<self, problem, env, pc, caller, error, mesh, k, t, i, COND,
                 stop_annotating, tape, ckpt, ei, eiIdx, cell_markers,
                 warnings, refines, duals, metricGen, trace, residuals,
                 adj_inc>>

\* compute_dual, lines 256-272: one record yielded by compute_adjoint
compute_dual_step ==
  /\ pc = "compute_dual"
  /\ adjoint # <<>>
  /\ LET var == Head(adjoint)
         it == IF timestep = var.timestep THEN iteration + 1 ELSE 0
     IN  /\ adjoint' = Tail(adjoint)
         /\ IF var.name = "w"
            THEN /\ iteration' = it
                 /\ timestep' = var.timestep
                 /\ wtape' = Append(wtape,
                      IF ~self.steady_state
                      THEN [timestep |-> var.timestep, iteration |-> it]
                      ELSE [timestep |-> -1, iteration |-> -1])
                 /\ phi' = Append(phi, var)
                 /\ IF ~self.steady_state
                    THEN _timestep' = _timestep + 1 /\ tdual' = DSub(tdual, k)
                    ELSE UNCHANGED <<_timestep, tdual>>
            ELSE UNCHANGED <<iteration, timestep, wtape, phi, _timestep,
                             tdual>>
  /\ UNCHANGED <<self, problem, env, pc, caller, error, mesh, k, t, i, COND,
                 stop_annotating, tape, ckpt, ei, eiIdx, cell_markers,
                 warnings, refines, duals, metricGen, trace, residuals,
                 adj_inc>>

\* compute_dual, line 274, and adaptive_solve, lines 232-237: the sweep
\* returns; a steady run passes phi[0] to update
compute_dual_return ==
  /\ pc = "compute_dual"
  /\ adjoint = <<>>
  /\ duals' = Len(phi)
  /\ IF self.steady_state /\ phi = <<>>
     THEN Abort("IndexError") /\ UNCHANGED trace
     ELSE /\ trace' = Append(trace, "dual")
          /\ pc' = "build_error_indicators"
          /\ UNCHANGED error
  /\ UNCHANGED <<self, problem, env, caller, mesh, k, t, i, COND,
                 stop_annotating, tape, ckpt, _timestep, adjoint, timestep,
                 iteration, tdual, phi, wtape, ei, eiIdx, cell_markers,
                 warnings, refines, metricGen, residuals, adj_inc>>

\* ------------------------------------------------- build_error_indicators
\* build_error_indicators, lines 277-283 and 292-296: the zero field; a
\* steady run assembles once and returns, a time-dependent one enters the
\* xrange loop
build_error_indicators_begin ==
  /\ pc = "build_error_indicators"
  /\ IF self.steady_state
     THEN /\ \E v \in Vectors(mesh.cells) : ei' = v
          /\ residuals' = <<SteadyResidual>>
          /\ DropDualLocals
          /\ trace' = Append(trace, "indicator")
          /\ pc' = "condition"
          /\ UNCHANGED error
     ELSE /\ ei' = Zeros(mesh.cells)
          /\ residuals' = <<>>
          /\ eiIdx' = 0
          /\ UNCHANGED <<adjoint, timestep, iteration, tdual, phi, wtape,
                         trace>>
          /\ IF env.xrangeDefined
             THEN pc' = "ei_loop" /\ UNCHANGED error
             ELSE Abort("NameError")
  /\ UNCHANGED <<self, problem, env, caller, mesh, k, t, i, COND,
                 stop_annotating, tape, ckpt, _timestep, cell_markers,
                 warnings, refines, duals, metricGen, adj_inc>>

\* mutant of build_error_indicators_step: the assembled residual replaces
\* the field instead of being added to it
build_error_indicators_step_overwrites ==
  /\ pc = "ei_loop"
  /\ eiIdx < Len(wtape) - 1
  /\ \E v \in Vectors(mesh.cells) : ei' = v
  /\ residuals' = Append(residuals, Residual(eiIdx))
  /\ eiIdx' = eiIdx + 1
  /\ UNCHANGED <<self, problem, env, pc, caller, error, mesh, k, t, i, COND,
                 stop_annotating, tape, ckpt, _timestep, adjoint, timestep,
                 iteration, tdual, phi, wtape, cell_markers, warnings,
                 refines, duals, metricGen, trace, adj_inc>>

\* build_error_indicators, lines 283-290: one residual is assembled and
\* added to the field
build_error_indicators_step ==
  /\ pc = "ei_loop"
  /\ eiIdx < Len(wtape) - 1
  /\ \E v \in Vectors(mesh.cells) : ei' = VecAdd(ei, v)
  /\ residuals' = Append(residuals, Residual(eiIdx))
  /\ eiIdx' = eiIdx + 1
  /\ UNCHANGED <<self, problem, env, pc, caller, error, mesh, k, t, i, COND,
                 stop_annotating, tape, ckpt, _timestep, adjoint, timestep,
                 iteration, tdual, phi, wtape, cell_markers, warnings,
                 refines, duals, metricGen, trace, adj_inc>>

\* build_error_indicators, line 296, and adaptive_solve, line 240
build_error_indicators_return ==
  /\ pc = "ei_loop"
  /\ ~(eiIdx < Len(wtape) - 1)
  /\ DropDualLocals
  /\ trace' = Append(trace, "indicator")
  /\ pc' = "condition"
  /\ UNCHANGED <<self, problem, env, caller, error, mesh, k, t, i, COND,
                 stop_annotating, tape, ckpt, _timestep, ei, cell_markers,
                 warnings, refines, duals, metricGen, residuals, adj_inc>>

\* ---------------------------------------------------------- specification
Next ==
  \/ solve_begin
  \/ adaptivity_iterate
  \/ adaptivity_return
  \/ adaptive_solve_begin
  \/ steady_solve
  \/ timeStepper_begin
  \/ timeStepper_step
  \/ timeStepper_return
  \/ adaptive_solve_dual
  \/ compute_dual_step
  \/ compute_dual_return
  \/ build_error_indicators_begin
  \/ build_error_indicators_step
  \/ build_error_indicators_return
  \/ adaptivity_condition
  \/ adaptive_refine
  \/ adj_reset
  \/ adaptivity_increment
  \/ solve_primal
  \/ solve_after_primal
  \/ solve_return

Spec == Init /\ [][Next]_vars

TypeOK ==
  /\ pc \in {"solve", "adaptivity", "adaptive_solve", "forward_solve",
             "timeStepper", "forward_done", "compute_dual",
             "build_error_indicators", "ei_loop", "condition",
             "adaptive_refine", "adj_reset", "increment", "primal", "done",
             "aborted"}
  /\ error \in {"none", "TypeError", "IndexError", "NameError",
                "AssertionError", "ZeroDivisionError"}
  /\ (pc = "aborted") = (error # "none")

\* ------------------------------------------- compute_dual on its own
\* compute_dual started in the states in which adaptive_solve calls it in
\* the first adaptive iteration (line 230): the primal pass has run all its
\* steps with the step adjust_dt returned, every solve has put 1..MaxRecords
\* 'w' records on the tape and every assign one 'w_' record
\* timesteps the primal pass before the sweep has closed (lines 450-471)
\* t after j passes of the time loop (lines 450-451)
RECURSIVE PassTime(_)
PassTime(j) == IF j = 0 THEN D(problem.t0) ELSE DAdd(PassTime(j - 1), k)

\* the passes the loop makes from the j-th on until its test fails
RECURSIVE LoopSteps(_)
LoopSteps(j) ==
  IF DLess(PassTime(j), HalfStepBound) THEN LoopSteps(j + 1) ELSE j

DualSteps == IF self.steady_state THEN 0 ELSE LoopSteps(0)

\* the records of step j of the pass (lines 458-462), made before the
\* timestep j - 1 is closed
StepRecords(j, n) ==
  [m \in 1..n |-> [name |-> "w", timestep |-> j - 1, pass |-> 0]]
    \o <<[name |-> "w_", timestep |-> j - 1, pass |-> 0]>>

\* the tape after the first j steps, ns[j] being the 'w' records of step j
RECURSIVE PassRecords(_, _)
PassRecords(ns, j) ==
  IF j = 0 THEN <<>> ELSE PassRecords(ns, j - 1) \o StepRecords(j, ns[j])

\* the tape after steady_solve (line 415)
SteadyRecords(n) == [m \in 1..n |-> [name |-> "w", timestep |-> 0, pass |-> 0]]

\* problem.T and problem.k of the passes: up to MaxTimestep + 1 steps
DualTimeVals ==
  {tv \in [T : {RInt(n) : n \in 1..(MaxTimestep + 1)},
           k : {<<1, 1>>, <<2, 3>>}] :
     StepCount(RInt(0), tv.T, adjust_dt(RInt(0), tv.T, tv.k))
        <= MaxTimestep + 1}

DualInit ==
  /\ self \in {s \in SelfVals :
                 /\ s.adaptive /\ ~s.optimize /\ s.maxAdapts = 0
                 /\ s.adaptTOL = 0 /\ s.adaptRatio = <<1, 2>>
                 /\ s.onDisk = <<0, 1>>}
  /\ \E tv \in DualTimeVals :
        /\ self.steady_state => tv = [T |-> <<1, 1>>, k |-> <<1, 1>>]
        /\ problem = [T |-> tv.T, t0 |-> <<0, 1>>, k |-> tv.k,
                      cells |-> 1, hasOptimize |-> FALSE,
                      hasTimeStep |-> FALSE]
  /\ env = [imported |-> TRUE, adjointer |-> TRUE, xrangeDefined |-> TRUE]
  /\ pc = "compute_dual"
  /\ caller = "adaptive"
  /\ error = "none"
  /\ mesh = [gen |-> 0, cells |-> problem.cells]
  /\ k = IF self.steady_state THEN None
         ELSE adjust_dt(problem.t0, problem.T, problem.k)
  /\ \E steps \in {DualSteps} :
        /\ t = IF self.steady_state THEN None ELSE PassTime(steps)
        /\ IF self.steady_state
           THEN \E n \in 1..MaxRecords :
                  tape = [entries |-> SteadyRecords(n), ts |-> 0,
                          finished |-> FALSE]
           ELSE \E ns \in [1..steps -> 1..MaxRecords] :
                  tape = [entries |-> PassRecords(ns, steps),
                          ts |-> steps, finished |-> TRUE]
        /\ adj_inc = [j \in 1..steps |->
                        [time |-> PassTime(j), finished |-> j = steps]]
  /\ i = 0
  /\ COND = 1
  /\ stop_annotating = "True"
  /\ adjoint = Reverse(tape.entries)
  /\ ckpt = <<>>
  /\ _timestep = 0
  /\ timestep = -1
  /\ iteration = 0
  /\ tdual = D(problem.T)
  /\ phi = <<>>
  /\ wtape = <<>>
  /\ ei = <<>>
  /\ eiIdx = 0
  /\ cell_markers = <<>>
  /\ warnings = {}
  /\ refines = 0
  /\ duals = 0
  /\ metricGen = -1
  /\ trace = <<"primal", "annotation_off">>
  /\ residuals = <<>>

DualNext ==
  \/ compute_dual_step
  \/ compute_dual_return

DualSpec == DualInit /\ [][DualNext]_vars

\* --------------------------------------------- adjust_dt on its own
\* solve applies adjust_dt to the problem's interval and step (line 117);
\* here the interval and the step range over a grid of fractions
StepGrid == {Rat(n, d) : n \in 1..MaxNum, d \in 1..MaxDen}
StartVals == {<<0, 1>>, <<1, 2>>}                  \* problem.t0

AdjustInit ==
  /\ self \in {s \in SelfVals :
                 /\ ~s.steady_state /\ ~s.optimize /\ s.maxAdapts = 0
                 /\ s.adaptTOL = 0 /\ s.adaptRatio = <<1, 2>>
                 /\ s.onDisk = <<0, 1>>}
  /\ \E a \in StartVals, x \in 1..MaxSpan, kk \in StepGrid :
        problem = [T |-> RAdd(a, RInt(x)), t0 |-> a, k |-> kk, cells |-> 1,
                   hasOptimize |-> FALSE, hasTimeStep |-> FALSE]
  /\ env \in EnvVals(self)
  /\ pc = "solve"
  /\ caller = "none"
  /\ error = "none"
  /\ mesh = [gen |-> 0, cells |-> problem.cells]
  /\ k = None
  /\ t = None
  /\ i = 0
  /\ COND = 1
  /\ stop_annotating = "unset"
  /\ tape = EmptyTape
  /\ ckpt = <<>>
  /\ _timestep = 0
  /\ adjoint = <<>>
  /\ timestep = -1
  /\ iteration = 0
  /\ tdual = None
  /\ phi = <<>>
  /\ wtape = <<>>
  /\ ei = <<>>
  /\ eiIdx = 0
  /\ cell_markers = <<>>
  /\ warnings = {}
  /\ refines = 0
  /\ duals = 0
  /\ metricGen = -1
  /\ trace = <<>>
  /\ residuals = <<>>
  /\ adj_inc = <<>>

AdjustNext == solve_begin

AdjustSpec == AdjustInit /\ [][AdjustNext]_vars

\* ----------------------------------------- adaptive_refine on its own
\* adaptive_refine is a function of the indicator field and adapt_ratio;
\* here it is applied to every field over a mesh of up to MaxRefineCells
\* cells, and to two fields over a mesh of WideCells cells with a ratio
\* whose product with 22 cells is a double just below 15, in the state in
\* which the first iteration of a steady adaptive run calls it (line 191)
RefineRatioVals == {<<0, 1>>, <<1, 4>>, <<2, 5>>, <<1, 1>>}
RefineEiVals == -1..MaxGamma
WideRatioVals == {<<1, 2>>, <<15, 22>>}
WideFields ==
  {[c \in 1..WideCells |-> c],
   [c \in 1..WideCells |-> IF c % 2 = 0 THEN -c ELSE c \div 2]}
RefineInputs ==
  {[ratio |-> r, field |-> f] :
     r \in RefineRatioVals,
     f \in UNION {[1..n -> RefineEiVals] : n \in 1..MaxRefineCells}}
  \cup {[ratio |-> r, field |-> f] : r \in WideRatioVals, f \in WideFields}

RefineInit ==
  /\ \E inp \in RefineInputs :
        /\ self = [adaptive |-> TRUE, optimize |-> FALSE,
                   steady_state |-> TRUE, maxAdapts |-> 0, adaptTOL |-> 0,
                   adaptRatio |-> inp.ratio, onDisk |-> <<0, 1>>]
        /\ problem = [T |-> <<1, 1>>, t0 |-> <<0, 1>>, k |-> <<1, 1>>,
                      cells |-> Len(inp.field), hasOptimize |-> FALSE,
                      hasTimeStep |-> FALSE]
        /\ ei = inp.field
  /\ env = [imported |-> TRUE, adjointer |-> TRUE, xrangeDefined |-> TRUE]
  /\ pc = "adaptive_refine"
  /\ caller = "adaptive"
  /\ error = "none"
  /\ mesh = [gen |-> 0, cells |-> problem.cells]
  /\ k = None
  /\ t = None
  /\ i = 0
  /\ COND = condition(ei)
  /\ stop_annotating = "True"
  /\ tape = [entries |-> <<[name |-> "w", timestep |-> 0, pass |-> 0]>>,
             ts |-> 0, finished |-> FALSE]
  /\ ckpt = <<>>
  /\ _timestep = 0
  /\ adjoint = <<>>
  /\ timestep = -1
  /\ iteration = 0
  /\ tdual = None
  /\ phi = <<>>
  /\ wtape = <<>>
  /\ eiIdx = 0
  /\ cell_markers = <<>>
  /\ warnings = {}
  /\ refines = 0
  /\ duals = 1
  /\ metricGen = 0
  /\ trace = <<"primal", "annotation_off", "dual", "indicator", "metric">>
  /\ residuals = <<SteadyResidual>>
  /\ adj_inc = <<>>

RefineNext == adaptive_refine

RefineSpec == RefineInit /\ [][RefineNext]_vars

\* ================================================================ claims
Range(s) == {s[j] : j \in 1..Len(s)}
IsPrefix(s, r) == Len(s) <= Len(r) /\ \A j \in 1..Len(s) : s[j] = r[j]
SumAbs(s) == Sum([c \in 1..Len(s) |-> Abs(s[c])])
InUnit(f) == RLeq(RInt(0), f) /\ RLeq(f, RInt(1))

AdaptiveRun == self.adaptive /\ env.adjointer
\* adaptivity has handed control back to solve
AdaptivityReturned ==
  AdaptiveRun /\ (pc \in {"primal", "done"} \/ caller \in {"final", "opt"})
\* adaptivity is over, by return or by an exception
AdaptivityEnded ==
  AdaptivityReturned \/ (AdaptiveRun /\ pc = "aborted" /\ caller \in {"none", "adaptive"})

\* C1 (as claimed): when every backend call returns (and every name the
\* backend exports resolves, and update's progress line can divide by
\* problem.T), adaptivity ends only with the metric at or below the tolerance
\* or with the iteration counter above max_adaptations.
C1_OnlyTwoOutcomes ==
  (AdaptivityEnded /\ env.xrangeDefined /\ problem.T # RInt(0)) =>
     (COND <= self.adaptTOL \/ i > self.maxAdapts)

\* C2 (as claimed): a run that ends with the reached-max-iterations warning
\* has called adaptive_refine exactly max_adaptations times.
C2_ExactlyMRefinements ==
  (AdaptivityReturned /\ "max_iterations" \in warnings) =>
     refines = self.maxAdapts

PhaseOrder ==
  <<"primal", "annotation_off", "dual", "indicator", "metric", "refine",
    "adj_reset", "increment">>
DualPhase == pc \in {"compute_dual", "build_error_indicators", "ei_loop"}

\* C3 (as claimed): the phases of an adaptive iteration are completed in
\* the order primal pass, annotation off, dual sweep, indicator, metric,
\* refine, adj_reset, increment; a dual state exists only once the primal
\* pass of the iteration is complete (its last step recorded as finished);
\* the backend's annotation is off and the tape does not change while the
\* dual sweep or the indicator build runs.
C3_PhaseOrder ==
  /\ [](/\ IsPrefix(trace, PhaseOrder)
        /\ (phi # <<>> =>
              /\ "primal" \in Range(trace)
              /\ (~self.steady_state => tape.finished))
        /\ (DualPhase => ~Annotating))
  /\ [][DualPhase => tape' = tape]_vars

\* C4: in an adaptive run the tape is empty whenever a primal pass of an
\* adaptive iteration or the final primal pass starts, and every entry on
\* the tape (and every record replayed by the dual sweep) was recorded by
\* the current pass.
C4_TapeEmptyAtPrimalStart ==
  AdaptiveRun =>
    /\ (pc = "forward_solve" /\ caller \in {"adaptive", "final"} =>
          tape.entries = <<>>)
    /\ \A e \in Range(tape.entries) \cup Range(adjoint) : e.pass = PassTag

\* C4 witness: the final primal pass starts after an adaptive iteration
\* that put records on the tape.
C4_Witness ==
  /\ AdaptiveRun
  /\ pc = "forward_solve" /\ caller = "final"
  /\ refines = 1 /\ duals > 0

\* C5 (as claimed): once an iteration has computed a metric at or below the
\* tolerance (from an all-zero indicator field), that iteration does not
\* refine, and the mesh is still the one the metric was computed on.
C5_RefineOnlyIfContinuing ==
  (AdaptiveRun /\ metricGen >= 0 /\ COND <= self.adaptTOL
     /\ (ei # <<>> => SumAbs(ei) = 0)) =>
     ("refine" \notin Range(trace) /\ mesh.gen = metricGen)

\* C5 (amended): every adaptive iteration calls adaptive_refine once its
\* metric is computed, whatever the metric: past that call the mesh is the
\* refinement of the mesh the last metric was computed on, and the number of
\* adaptive_refine calls equals the number of metrics computed.
C5_RefineEveryIteration ==
  (AdaptiveRun /\ metricGen >= 0 /\ pc # "adaptive_refine") =>
     (mesh.gen = metricGen + 1 /\ refines = metricGen + 1)

\* C5 witness: adaptivity returned as converged, and the mesh it returned
\* was refined after the converged metric was computed.
C5_Witness ==
  /\ AdaptivityReturned
  /\ metricGen = 0 /\ COND <= self.adaptTOL
  /\ mesh.gen = 1

\* C6 (as claimed): the metric condition returns is the sum of the absolute
\* values of the indicator entries.
C6_SumOfAbs == pc = "adaptive_refine" => COND = SumAbs(ei)

\* C7: the max-iterations warning is there exactly when adaptivity has
\* returned with the counter above max_adaptations and the metric above the
\* tolerance; it is not an error: a run that printed it has not aborted and,
\* until solve has returned, always has a next step (the final primal pass
\* and the return of its solution).
C7_WarningIffExhausted ==
  /\ AdaptivityReturned =>
       (("max_iterations" \in warnings) <=>
          (i > self.maxAdapts /\ COND > self.adaptTOL))
  /\ ~AdaptivityReturned => "max_iterations" \notin warnings
  /\ "max_iterations" \in warnings =>
       /\ error = "none"
       /\ mesh.gen = refines /\ (~self.steady_state => k # None)
       /\ pc # "done" => ENABLED Next

\* C7 witness: solve has returned after a run that exhausted its budget.
C7_Witness ==
  /\ pc = "done"
  /\ "max_iterations" \in warnings
  /\ i > self.maxAdapts /\ COND > self.adaptTOL

\* C8 (as claimed): for a fraction in [0,1] every configured budget has
\* snaps_on_disk = floor(f * N), snaps_in_ram = N - snaps_on_disk, and the
\* two add up to the steps.
C8_BudgetAddsUp ==
  \A j \in 1..Len(ckpt) :
     InUnit(self.onDisk) =>
        /\ ckpt[j].snaps_in_ram + ckpt[j].snaps_on_disk = ckpt[j].steps
        /\ ckpt[j].snaps_on_disk =
              RFloor(RMul(self.onDisk, RInt(ckpt[j].steps)))
        /\ ckpt[j].snaps_in_ram = ckpt[j].steps - ckpt[j].snaps_on_disk

\* C9 (as claimed): with a fraction outside [0,1] a time-dependent
\* adaptive_solve configures no checkpoint budget and starts no primal pass.
C9_FractionRejected ==
  (AdaptiveRun /\ ~self.steady_state /\ ~InUnit(self.onDisk)) =>
     (ckpt = <<>> /\ caller # "adaptive")

\* C10 (as claimed): adaptive_solve returns an indicator field (and the loop
\* goes on to compute a metric from it) only from a dual sweep that produced
\* at least one dual state.
C10_EmptySweepIsFatal ==
  (AdaptiveRun /\ InUnit(self.onDisk) /\ "indicator" \in Range(trace)) =>
     duals > 0

\* C11 (as claimed): compute_dual returns at most one (dual state, tape
\* value) pair per timestep, whatever records the tape holds.
C11_OnePairPerTimestep ==
  ~self.steady_state =>
     \A a, b \in 1..Len(wtape) :
        a # b => wtape[a].timestep # wtape[b].timestep

\* C12: in compute_dual every 'w' record gets iteration 0 when it is the
\* first or its timestep differs from that of the previous 'w' record, and
\* the previous iteration + 1 otherwise; a record of another variable
\* changes neither the counter nor the remembered timestep nor the lists.
C12_IterationBookkeeping ==
  /\ [](/\ ~self.steady_state =>
             \A j \in 1..Len(wtape) :
                wtape[j].iteration =
                   IF j > 1 /\ wtape[j - 1].timestep = wtape[j].timestep
                   THEN wtape[j - 1].iteration + 1 ELSE 0
        /\ (pc = "compute_dual" /\ phi # <<>>) =>
             /\ timestep = phi[Len(phi)].timestep
             /\ ~self.steady_state =>
                  /\ wtape[Len(wtape)].timestep = timestep
                  /\ wtape[Len(wtape)].iteration = iteration)
  /\ [][(pc = "compute_dual" /\ adjoint # <<>>) =>
          IF Head(adjoint).name = "w"
          THEN /\ phi' = Append(phi, Head(adjoint))
               /\ Len(wtape') = Len(wtape) + 1
               /\ timestep' = Head(adjoint).timestep
               /\ iteration' = IF timestep = Head(adjoint).timestep
                                THEN iteration + 1 ELSE 0
          ELSE UNCHANGED <<timestep, iteration, phi, wtape>>]_vars

\* C12 witness: the replay of a three-step pass whose second solve recorded
\* 'w' twice: 'w' records with timesteps 2, 1, 1, 0 were given the pairs
\* (2,0), (1,0), (1,1), (0,0).
C12_Witness ==
  /\ pc = "build_error_indicators"
  /\ wtape = <<[timestep |-> 2, iteration |-> 0],
               [timestep |-> 1, iteration |-> 0],
               [timestep |-> 1, iteration |-> 1],
               [timestep |-> 0, iteration |-> 0]>>

IsInt(a) == a[2] = 1

\* C13 (as claimed): for T > t0 and k > 0 the step adjust_dt returns is at
\* most k and divides T - t0 a whole number of times; it is k itself when
\* k already divides T - t0, and (T - t0) / (floor((T - t0) / k) + 1)
\* otherwise.
C13_AdjustedStep ==
  (pc # "solve" /\ ~self.steady_state /\ RLess(problem.t0, problem.T)) =>
     LET x == RSub(problem.T, problem.t0)
     IN  /\ ~DLess(D(problem.k), k)
         /\ DLess(D(RInt(0)), k)
         /\ IsInt(RDiv(x, k[1]))
         /\ k = IF IsInt(RDiv(x, problem.k)) THEN D(problem.k)
                ELSE D(RDiv(x, RInt(RFloor(RDiv(x, problem.k)) + 1)))

PassStarted == ~self.steady_state /\ caller # "none" /\ pc # "forward_solve"
PassLeft == PassStarted /\ pc # "timeStepper"
StepsOfPass == RDiv(RSub(problem.T, problem.t0), k[1])

\* C14 (as claimed): every step in use divides T - t0; every primal pass of
\* a time-dependent run, once started, is left only with t = T; at the end
\* of its time loop it has executed exactly (T - t0) / k steps (the step
\* counter of an adaptive pass, reset before it, stands at that number plus
\* the initial update, and with the adjointer flag set the pass has closed
\* that many timesteps on the tape, the last one flagged as finished).
C14_ExactSteps ==
  /\ (~self.steady_state /\ k # None) =>
        (DLess(D(RInt(0)), k) /\ IsInt(StepsOfPass))
  /\ (PassStarted /\ pc = "timeStepper") =>
        /\ ~DLess(D(problem.T), t)
        /\ IsInt(RDiv(RSub(t[1], problem.t0), k[1]))
  /\ PassLeft => t = D(problem.T)
  /\ (PassStarted /\ pc = "forward_done") =>
        /\ caller = "adaptive" => RInt(_timestep) = RAdd(StepsOfPass, RInt(1))
        /\ env.adjointer =>
             /\ RInt(Len(adj_inc)) = StepsOfPass
             /\ adj_inc # <<>> => adj_inc[Len(adj_inc)].finished

Refined == pc = "adj_reset" /\ refines > 0
CellCount == Len(ei)
\* adapt_ratio * cell_count
Target == RMul(self.adaptRatio, RInt(CellCount))
MarkedCount == Cardinality(Marked(cell_markers))
Above(g) == {c \in 1..CellCount : Abs(ei[c]) > g}
AtLeast(g) == {c \in 1..CellCount : Abs(ei[c]) >= g}

\* C15 (as claimed): adapt_n is floor(cell_count * adapt_ratio) - 1, and a
\* cell is marked exactly when its absolute error strictly exceeds the
\* element at that 0-based position of the descending sort.
C15_FloorThreshold ==
  Refined =>
     LET an == RFloor(Target) - 1
     IN  /\ AdaptN(ei, self.adaptRatio) = an
         /\ an >= 0 =>
               \A c \in 1..CellCount :
                  cell_markers[c] <=>
                     Abs(ei[c]) > SortedDesc(Gamma(ei))[an + 1]

\* the product of the doubles cell_count * adapt_ratio falls short of the
\* whole number from 2 on that the product of the fractions is
ProductShort ==
  /\ IsInt(Target) /\ RLeq(RInt(2), Target)
  /\ DLess(DTimesInt(D(self.adaptRatio), CellCount), D(Target))

\* C15 (amended): adapt_n is the double cell_count * adapt_ratio - 1
\* truncated toward zero: floor(cell_count * adapt_ratio) - 1 when the
\* product is at least 1 (one less when the product of the doubles falls
\* short of a whole number from 2 on, as for 22 cells at 15/22), 0 when it
\* lies strictly between 0 and 1, and -1 when it is 0.  gamma_0 is
\* the (adapt_n + 1)-th largest absolute error (at most adapt_n entries lie
\* strictly above it, at least adapt_n + 1 are at or above it), and the
\* smallest one when adapt_n is -1; a cell is marked exactly when its
\* absolute error strictly exceeds gamma_0.
C15_TruncThreshold ==
  Refined =>
     LET an == IF RLeq(RInt(1), Target)
               THEN RFloor(Target) - 1 - (IF ProductShort THEN 1 ELSE 0)
               ELSE IF Target = RInt(0) THEN -1 ELSE 0
     IN  /\ AdaptN(ei, self.adaptRatio) = an
         /\ \E c0 \in 1..CellCount :
               LET g == Abs(ei[c0])
               IN  /\ IF an >= 0
                      THEN /\ Cardinality(Above(g)) <= an
                           /\ Cardinality(AtLeast(g)) >= an + 1
                      ELSE AtLeast(g) = 1..CellCount
                   /\ Gamma0(ei, self.adaptRatio) = g
                   /\ Marked(cell_markers) = Above(g)

\* C15 witness: errors 5, 1, 4, 2, 3 with adapt_ratio 2/5 give adapt_n = 1,
\* gamma_0 = 4 and exactly the cell of value 5 marked.
C15_Witness ==
  /\ Refined
  /\ ei = <<5, 1, 4, 2, 3>>
  /\ self.adaptRatio = <<2, 5>>
  /\ AdaptN(ei, self.adaptRatio) = 1
  /\ Gamma0(ei, self.adaptRatio) = 4
  /\ Marked(cell_markers) = {1}

\* C16 (as claimed): when the absolute errors are pairwise distinct and
\* adapt_ratio * cell_count is an integer >= 1, exactly that many cells are
\* marked.
C16_ExactCountWithoutTies ==
  (/\ Refined
   /\ \A a, b \in 1..CellCount : a # b => Abs(ei[a]) # Abs(ei[b])
   /\ IsInt(Target) /\ RLeq(RInt(1), Target)) =>
     RInt(MarkedCount) = Target

\* C20 (as claimed): for adapt_ratio in [0, 1] at most adapt_ratio *
\* cell_count cells are marked; with adapt_ratio 0 none is.
C20_AtMostTheFraction ==
  (Refined /\ InUnit(self.adaptRatio)) => RLeq(RInt(MarkedCount), Target)

AdaptivePcs ==
  {"adaptivity", "adaptive_solve", "compute_dual", "build_error_indicators",
   "ei_loop", "condition", "adaptive_refine", "adj_reset", "increment"}

\* C17 (as claimed): with the adjointer flag false solve never enters the
\* adaptive loop, never runs a dual sweep or a refinement, never calls
\* problem.Optimize (and so never re-solves), never writes the annotation
\* parameter, never creates the annotated function 'w_' and never opens or
\* closes a tape timestep (what an imported backend records on its own is
\* the solved function and the initial condition, and nothing when
\* dolfin_adjoint is not imported); it runs one forward solve, on the
\* problem's mesh; it has warned about adaptivity from the first statement
\* on exactly when adaptive is set, and about optimisation exactly at its
\* return when optimize is set; and it does not fail: no exception ends the
\* run, and once past the first statement of solve (which has no
\* condition) the run always has a next step until solve has returned.
C17_PrimalOnly ==
  ~env.adjointer =>
    /\ pc \notin AdaptivePcs
    /\ caller \in {"none", "final"}
    /\ (pc = "done" => caller = "final")
    /\ refines = 0 /\ duals = 0 /\ phi = <<>> /\ i = 0
    /\ mesh = [gen |-> 0, cells |-> problem.cells]
    /\ stop_annotating = "unset" /\ ckpt = <<>> /\ adj_inc = <<>>
    /\ tape.ts = 0 /\ ~tape.finished
    /\ \A e \in Range(tape.entries) : e.name \in {"w", "ic"}
    /\ (~env.imported => tape.entries = <<>>)
    /\ (pc # "solve" =>
          (("adaptivity_without_adjoint" \in warnings) <=> self.adaptive))
    /\ (("optimize_without_adjoint" \in warnings) <=>
          (pc = "done" /\ self.optimize))
    /\ warnings \subseteq
          {"adaptivity_without_adjoint", "optimize_without_adjoint"}
    /\ error = "none"
    /\ ((error = "none" /\ pc \notin {"solve", "done"}) => ENABLED Next)

\* an adaptive primal pass of a time-dependent run is under way or just over
InAdaptivePass ==
  /\ AdaptiveRun /\ ~self.steady_state /\ caller = "adaptive"
  /\ pc \in {"forward_solve", "timeStepper", "forward_done"}

\* C18 (as claimed): for every on-disk fraction in [0,1] each adaptive
\* primal pass of a time-dependent run has the checkpoint budget configured
\* exactly once, before its first step; a steady run never configures it.
C18_ConfiguredEveryPass ==
  /\ self.steady_state => ckpt = <<>>
  /\ (InAdaptivePass /\ InUnit(self.onDisk)) => Len(ckpt) = 1

\* C18 (amended): the checkpoint budget is configured only by the adaptive
\* primal pass of a time-dependent run and only when the on-disk fraction is
\* above 0: then exactly once per pass, before the pass's first step, with
\* the pass's number of steps; with a fraction of 0 or below, in a steady
\* run, outside the adaptive loop and in the final pass it is not configured
\* at all.
C18_ConfiguredIffPositive ==
  /\ Len(ckpt) <= 1
  /\ (self.steady_state \/ ~AdaptiveRun \/ caller # "adaptive") => ckpt = <<>>
  /\ ckpt # <<>> => RLess(RInt(0), self.onDisk)
  /\ InAdaptivePass =>
       /\ (Len(ckpt) = 1) <=> RLess(RInt(0), self.onDisk)
       /\ ckpt # <<>> => RInt(ckpt[1].steps) = StepsOfPass

\* C18 witness: a time-dependent adaptive pass with on-disk fraction 1/2 has
\* taken a step with the budget configured once.
C18_Witness ==
  /\ InAdaptivePass
  /\ pc = "timeStepper" /\ t # D(problem.t0)
  /\ self.onDisk = <<1, 2>>
  /\ Len(ckpt) = 1

FieldBuilt == AdaptiveRun /\ pc \in {"condition", "adaptive_refine"}

\* C19: build_error_indicators starts from the zero field over the cells of
\* the iteration's mesh, whatever the field was before, and the field keeps
\* one entry per cell of the mesh adaptive_refine is then given; in a
\* time-dependent run every loop pass adds (not assigns) one assembled
\* residual, the pass with index j formed from the tape states j and j + 1
\* (weight theta on j, 1 - theta on j + 1) and the dual state j, and the
\* finished field has had exactly n - 1 residuals added for n >= 1 tape/dual
\* pairs (none for n = 0); in a steady run the field is one assembly from
\* tape state 0 and dual state 0.
C19_IndicatorBuild ==
  /\ [](/\ (pc \in {"ei_loop", "condition", "adaptive_refine"}) =>
             Len(ei) = mesh.cells
        /\ pc = "ei_loop" =>
             /\ Len(residuals) = eiIdx
             /\ eiIdx = 0 => ei = Zeros(mesh.cells)
             /\ \A c \in 1..Len(ei) : Abs(ei[c]) <= eiIdx
        /\ FieldBuilt =>
             IF self.steady_state
             THEN residuals = <<[theta_on |-> -1, rest_on |-> -1, w |-> 0,
                                 w_ |-> -1, dual |-> 0]>>
             ELSE /\ Len(residuals) = IF duals = 0 THEN 0 ELSE duals - 1
                  /\ \A j \in 1..Len(residuals) :
                       residuals[j] = [theta_on |-> j - 1, rest_on |-> j,
                                       w |-> j - 1, w_ |-> j, dual |-> j - 1])
  /\ [][(pc = "ei_loop" /\ pc' = "ei_loop") =>
          \E v \in Vectors(mesh.cells) : ei' = VecAdd(ei, v)]_vars
  /\ [][(pc = "build_error_indicators" /\ pc' \in {"ei_loop", "condition"}) =>
          /\ Len(ei') = mesh.cells
          /\ ~self.steady_state => ei' = Zeros(mesh.cells)]_vars

\* C19 witness: a time-dependent iteration with three tape/dual pairs has
\* returned a field into which two residuals were added, adding up to 2 in
\* some cell.
C19_Witness ==
  /\ FieldBuilt /\ ~self.steady_state
  /\ duals = 3 /\ Len(residuals) = 2
  /\ \E c \in 1..Len(ei) : ei[c] = 2

\* C21: when adaptivity has returned without the max-iterations warning,
\* some iteration computed the stopping metric from an indicator field
\* (after a primal pass, a dual sweep and an indicator build) and that
\* metric is within the tolerance.  COND starts at the constant 1 (line
\* 167), so a tolerance of 1 or more ends the loop before its first
\* iteration.
C21_ConvergedOnlyAfterAMetric ==
  (AdaptivityReturned /\ self.maxAdapts >= 0
      /\ "max_iterations" \notin warnings) =>
    /\ metricGen >= 0
    /\ COND <= self.adaptTOL

\* C22: every primal pass (the passes of the adaptive loop, the final pass
\* of solve and the pass after Optimize) and every dual sweep starts with
\* the step counter _timestep at 0.
C22_CounterZeroAtEveryStart ==
  [][/\ pc' = "forward_solve" => _timestep' = 0
     /\ (pc = "forward_done" /\ pc' = "compute_dual") => _timestep' = 0]_vars

\* a time-dependent primal pass with the adjoint backend is in its time
\* loop or has just left it
InTimeLoop ==
  env.adjointer /\ ~self.steady_state /\ pc \in {"timeStepper", "forward_done"}

\* C23: in a time-dependent primal pass with the adjoint backend,
\* timeStepper calls adj_inc_timestep once per executed step, with the
\* times t0 + k, t0 + 2k, ... in increasing order; finished is true on the
\* last step of the pass and on no earlier one, and the loop is not left
\* before a call with finished = true was made.
C23_OneFinishedStep ==
  InTimeLoop =>
    /\ t = D(RAdd(problem.t0, RMul(RInt(Len(adj_inc)), k[1])))
    /\ \A j \in 1..Len(adj_inc) :
         /\ adj_inc[j].time = D(RAdd(problem.t0, RMul(RInt(j), k[1])))
         /\ adj_inc[j].finished =>
              j = Len(adj_inc) /\ ~DLess(t, HalfStepBound)
    /\ pc = "forward_done" =>
         /\ adj_inc # <<>>
         /\ adj_inc[Len(adj_inc)].finished

====
